---- MODULE Spec2Model ----
(***************************************************************************)
(* Student grading system: the Streamlit pages Application.py (in-memory    *)
(* roster), app.py (roster auto-saved to student_grades.csv) and            *)
(* final_app.py (auto-save plus a configurable number of subjects).         *)
(*                                                                          *)
(* Text is a sequence of one-character strings.  A Python float is kept as  *)
(* an exact decimal [kind, neg, m, e] meaning (-1)^neg * m / 10^e, so that   *)
(* parsing, formatting and rounding are computed digit by digit.            *)
(***************************************************************************)
EXTENDS Integers, Sequences, FiniteSets, TLC

VARIABLES variant, students, file, pc, num_subjects, event, invalid,
          errors, student_record, outcome, removed,
          score_in, score_out, avg_in, grade_out

vars == <<variant, students, file, pc, num_subjects, event, invalid,
          errors, student_record, outcome, removed,
          score_in, score_out, avg_in, grade_out>>

appVars == <<variant, students, file, pc, num_subjects, event, invalid,
             errors, student_record, outcome, removed>>

-----------------------------------------------------------------------------
(* Bounds of the model *)

\* longest text handed to validate_score in SpecScore
MaxLen == 4
\* denominator of the averages handed to compute_grade in SpecGrade
AvgDen == 200
\* largest roster the pages are driven to
MaxStudents == 2
\* largest value the "Number of subjects" slider is moved to (the slider allows 10)
MaxSubjects == 2

-----------------------------------------------------------------------------
(* Text *)

Digits == <<"0", "1", "2", "3", "4", "5", "6", "7", "8", "9">>

DigitValue ==
    [c \in {"0", "1", "2", "3", "4", "5", "6", "7", "8", "9"} |->
        CHOOSE v \in 0..9 : Digits[v + 1] = c]

IsDigit(c) == c \in DOMAIN DigitValue

DigitVal(c) == DigitValue[c]

IsSpace(c) == c = " "

RECURSIVE LStrip(_)
LStrip(s) == IF s # <<>> /\ IsSpace(Head(s)) THEN LStrip(Tail(s)) ELSE s

RECURSIVE RStrip(_)
RStrip(s) ==
    IF s # <<>> /\ IsSpace(s[Len(s)]) THEN RStrip(SubSeq(s, 1, Len(s) - 1)) ELSE s

\* str.strip()
Strip(s) == RStrip(LStrip(s))

RECURSIVE Pow10(_)
Pow10(k) == IF k = 0 THEN 1 ELSE 10 * Pow10(k - 1)

RECURSIVE DigitsToInt(_)
DigitsToInt(s) ==
    IF s = <<>> THEN 0
    ELSE 10 * DigitsToInt(SubSeq(s, 1, Len(s) - 1)) + DigitVal(s[Len(s)])

RECURSIVE IntToDigits(_)
IntToDigits(n) ==
    IF n < 10 THEN <<Digits[n + 1]>>
    ELSE IntToDigits(n \div 10) \o <<Digits[(n % 10) + 1]>>

\* n written with exactly k digits (zero padded on the left)
RECURSIVE PadDigits(_, _)
PadDigits(n, k) ==
    IF k = 0 THEN <<>> ELSE PadDigits(n \div 10, k - 1) \o <<Digits[(n % 10) + 1]>>

-----------------------------------------------------------------------------
(* Decimal numbers *)

NotParsed == [ok |-> FALSE, kind |-> "none", neg |-> FALSE, m |-> 0, e |-> 0]

Fin(neg, m, e) == [ok |-> TRUE, kind |-> "fin", neg |-> neg, m |-> m, e |-> e]

\* digits [ "." digits ] with at least one digit: the unsigned decimal literal
\* shared by Python's float() and by the CSV reader
UnsignedDecimal(s) ==
    LET dots == {i \in 1..Len(s) : s[i] = "."}
        digs == SelectSeq(s, IsDigit)
    IN  IF /\ Cardinality(dots) <= 1
           /\ \A i \in 1..Len(s) : IsDigit(s[i]) \/ s[i] = "."
           /\ digs # <<>>
        THEN Fin(FALSE, DigitsToInt(digs),
                 IF dots = {} THEN 0 ELSE Len(s) - (CHOOSE i \in dots : TRUE))
        ELSE NotParsed

\* an optional sign, then "nan", "inf" or an unsigned decimal
SignedNumber(s) ==
    LET signed == s # <<>> /\ Head(s) \in {"+", "-"}
        neg    == s # <<>> /\ Head(s) = "-"
        body   == IF signed THEN Tail(s) ELSE s
        d      == UnsignedDecimal(body)
    IN  IF body = <<"n", "a", "n">> THEN [NotParsed EXCEPT !.ok = TRUE, !.kind = "nan", !.neg = neg]
        ELSE IF body = <<"i", "n", "f">> THEN [NotParsed EXCEPT !.ok = TRUE, !.kind = "inf", !.neg = neg]
        ELSE [d EXCEPT !.neg = d.ok /\ neg]

\* marks typed into the form
RawScores == {<<"5", "0">>, <<"7", "9", ".", "9", "9", "6">>, <<"a", "b", "c">>}

\* float() of the marks of the form, computed once
FloatOfRaw == [r \in RawScores |-> SignedNumber(Strip(r))]

\* float(text): surrounding whitespace is ignored; ok = FALSE stands for ValueError
PyFloat(s) == IF s \in RawScores THEN FloatOfRaw[s] ELSE SignedNumber(Strip(s))

\* a <= b on floats: every comparison with nan is false
FloatLe(a, b) ==
    LET sa == IF a.neg THEN 0 - a.m ELSE a.m
        sb == IF b.neg THEN 0 - b.m ELSE b.m
    IN  CASE a.kind = "nan" \/ b.kind = "nan" -> FALSE
          [] a.kind = "inf" -> a.neg \/ (b.kind = "inf" /\ ~b.neg)
          [] b.kind = "inf" -> ~b.neg
          [] OTHER -> sa * Pow10(b.e) <= sb * Pow10(a.e)

FloatOfInt(n) == Fin(FALSE, n, 0)

\* validate_score with the upper end excluded (s < 100): not the code's test
validate_score_strict(score) ==
    LET s == PyFloat(score)
    IN  s.ok /\ FloatLe(FloatOfInt(0), s) /\ ~FloatLe(FloatOfInt(100), s)

validate_score(score) ==
    LET s == PyFloat(score)
    IN  IF s.ok THEN FloatLe(FloatOfInt(0), s) /\ FloatLe(s, FloatOfInt(100))
        ELSE FALSE

validate_name(n) == n # <<>> /\ Strip(n) # <<>>

-----------------------------------------------------------------------------
(* compute_grade: avg is the exact quotient num / den, den > 0 *)

Rat(num, den) == [num |-> num, den |-> den]

\* compute_grade with the A band opened at 80 (avg > 80): not the code's test
compute_grade_strict(avg) ==
    IF avg.num > 80 * avg.den THEN "A"
    ELSE IF avg.num >= 70 * avg.den THEN "B"
    ELSE IF avg.num >= 60 * avg.den THEN "C"
    ELSE IF avg.num >= 50 * avg.den THEN "D"
    ELSE "F"

compute_grade(avg) ==
    IF avg.num >= 80 * avg.den THEN "A"
    ELSE IF avg.num >= 70 * avg.den THEN "B"
    ELSE IF avg.num >= 60 * avg.den THEN "C"
    ELSE IF avg.num >= 50 * avg.den THEN "D"
    ELSE "F"

-----------------------------------------------------------------------------
(* Values held in a record of the roster, as pandas and Python hold them:    *)
(* a str, an int, a float (m / 10^e with no trailing zero digit) or NaN.     *)

StrV(s) == [t |-> "str", s |-> s, neg |-> FALSE, m |-> 0, e |-> 0]

IntV(neg, m) == [t |-> "int", s |-> <<>>, neg |-> neg, m |-> m, e |-> 0]

NaNV == [t |-> "nan", s |-> <<>>, neg |-> FALSE, m |-> 0, e |-> 0]

RECURSIVE Normalize(_, _)
Normalize(m, e) ==
    IF e > 0 /\ m % 10 = 0 THEN Normalize(m \div 10, e - 1) ELSE <<m, e>>

FloatV(neg, m, e) ==
    LET n == Normalize(m, e)
    IN  [t |-> "float", s |-> <<>>, neg |-> neg, m |-> n[1], e |-> n[2]]

IsNumeric(v) == v.t \in {"int", "float", "nan"}

\* repr(float): the shortest decimal, always with a fractional part
FloatRepr(v) ==
    (IF v.neg THEN <<"-">> ELSE <<>>)
        \o IntToDigits(v.m \div Pow10(v.e)) \o <<".">>
        \o (IF v.e = 0 THEN <<"0">> ELSE PadDigits(v.m % Pow10(v.e), v.e))

\* the text to_csv writes for one cell (na_rep is the empty text)
CellText(v) ==
    CASE v.t = "str"   -> v.s
      [] v.t = "int"   -> (IF v.neg THEN <<"-">> ELSE <<>>) \o IntToDigits(v.m)
      [] v.t = "float" -> FloatRepr(v)
      [] OTHER         -> <<>>

-----------------------------------------------------------------------------
(* Columns *)

SubjectNames ==
    <<"Subject 1", "Subject 2", "Subject 3", "Subject 4", "Subject 5",
      "Subject 6", "Subject 7", "Subject 8", "Subject 9", "Subject 10">>

\* subject_names = [f"Subject {i+1}" for i in range(num_subjects)]
subject_names(n) == SubSeq(SubjectNames, 1, n)

CSV_COLUMNS(n) == <<"Name">> \o subject_names(n) \o <<"Average", "Grade">>

Range(q) == {q[i] : i \in 1..Len(q)}

\* the order in which every dict of the roster lists its keys
KeyOrder == <<"Name">> \o SubjectNames \o <<"Average", "Grade">>

Keys(rec) == SelectSeq(KeyOrder, LAMBDA c : c \in DOMAIN rec)

\* pd.DataFrame(list of dicts): the columns are the keys in order of first appearance
RECURSIVE DfColumns(_)
DfColumns(recs) ==
    IF recs = <<>> THEN <<>>
    ELSE LET before == DfColumns(SubSeq(recs, 1, Len(recs) - 1))
         IN  before \o SelectSeq(Keys(recs[Len(recs)]), LAMBDA c : c \notin Range(before))

\* the raw entry of row i under column c: a missing key is NaN
DfRaw(recs, i, c) == IF c \in DOMAIN recs[i] THEN recs[i][c] ELSE NaNV

\* the value the frame holds: a column of numbers only is one dtype, so its
\* ints become floats as soon as a float or a NaN shares the column
DfValue(recs, i, c) ==
    LET v   == DfRaw(recs, i, c)
        col == {DfRaw(recs, j, c) : j \in 1..Len(recs)}
    IN  IF /\ v.t = "int"
           /\ \A w \in col : IsNumeric(w)
           /\ \E w \in col : w.t # "int"
        THEN FloatV(v.neg, v.m, 0)
        ELSE v

-----------------------------------------------------------------------------
(* The persisted file: header and one row of cell texts per record *)

NoFile == [exists |-> FALSE, cols |-> <<>>, rows |-> <<>>]

\* df[cols].to_csv(index=False)
to_csv(recs, cols) ==
    [exists |-> TRUE,
     cols   |-> cols,
     rows   |-> [i \in 1..Len(recs) |->
                    [c \in Range(cols) |-> CellText(DfValue(recs, i, c))]]]

\* texts the reader takes for a missing value (those the model's alphabet can spell)
NaTexts ==
    {<<>>, <<"N", "A">>, <<"n", "a", "n">>, <<"N", "a", "N">>,
     <<"n", "u", "l", "l">>, <<"N", "U", "L", "L">>}

SignedDecimal(s) ==
    LET p == SignedNumber(s) IN IF p.kind = "fin" THEN p ELSE NotParsed

CellIsInt(s) ==
    LET body == IF s # <<>> /\ Head(s) \in {"+", "-"} THEN Tail(s) ELSE s
    IN  body # <<>> /\ \A i \in 1..Len(body) : IsDigit(body[i])

\* what the reader sees in one cell: a missing value, an integer, a decimal
Scan(s) ==
    [na |-> s \in NaTexts, int |-> CellIsInt(s), num |-> SignedDecimal(s), text |-> s]

\* the dtype read_csv infers for a column from all of its cells
ColumnType(cells) ==
    IF \A x \in cells : ~x.na /\ x.int THEN "int"
    ELSE IF \A x \in cells : x.na \/ x.num.ok THEN "float"
    ELSE "object"

ParseCell(x, type) ==
    CASE x.na            -> NaNV
      [] type = "int"    -> IntV(x.num.neg /\ x.num.m # 0, x.num.m)
      [] type = "float"  -> FloatV(x.num.neg, x.num.m, x.num.e)
      [] OTHER           -> StrV(x.text)

ScanRows(f) ==
    [i \in 1..Len(f.rows) |-> [c \in Range(f.cols) |-> Scan(f.rows[i][c])]]

ColumnTypes(cell, cols) ==
    [c \in cols |-> ColumnType({cell[i][c] : i \in 1..Len(cell)})]

ParseRows(cell, cols, dtype) ==
    [i \in 1..Len(cell) |-> [c \in cols |-> ParseCell(cell[i][c], dtype[c])]]

ParseTyped(cell, cols) == ParseRows(cell, cols, ColumnTypes(cell, cols))

\* pd.read_csv(CSV_FILE).to_dict(orient="records")
read_csv(f) == ParseTyped(ScanRows(f), Range(f.cols))

\* the text of the download: df.to_csv(index=False) of the whole frame
Export(recs) == to_csv(recs, DfColumns(recs))

-----------------------------------------------------------------------------
(* Building a record from the form *)

Max(S) == CHOOSE x \in S : \A y \in S : y <= x

RECURSIVE SumScaled(_, _, _)
SumScaled(fs, k, e) ==
    IF k = 0 THEN 0
    ELSE SumScaled(fs, k - 1, e) + fs[k].m * Pow10(e - fs[k].e)

\* sum(scores) / len(scores), as an exact quotient; the scores are not negative
Mean(fs) ==
    LET e == Max({fs[i].e : i \in 1..Len(fs)})
    IN  Rat(SumScaled(fs, Len(fs), e), Len(fs) * Pow10(e))

\* round(avg, 2) in hundredths.  An exact tie falls to either side, as the
\* binary value nearest avg lies above or below the tie.
Round2(avg) ==
    LET q == (100 * avg.num) \div avg.den
        r == (100 * avg.num) % avg.den
    IN  IF 2 * r < avg.den THEN {q}
        ELSE IF 2 * r > avg.den THEN {q + 1}
        ELSE {q, q + 1}

\* scores = [float(m1), float(m2), float(m3)]
Scores(ms) == [i \in 1..Len(ms) |-> PyFloat(ms[i])]

ScoreValue(v, raw) ==
    IF v = "final_app" THEN StrV(raw)
    ELSE LET s == PyFloat(raw) IN FloatV(s.neg, s.m, s.e)

GradeOf(ms) == compute_grade(Mean(Scores(ms)))

\* the dict built from a valid form; avg2 is round(avg, 2) in hundredths.
\* final_app.py keeps the text typed for each mark, the other pages the float.
Record(v, nm, ms, avg2) ==
    LET n == Len(ms)
    IN  [c \in Range(CSV_COLUMNS(n)) |->
            CASE c = "Name"    -> StrV(Strip(nm))
              [] c = "Average" -> FloatV(FALSE, avg2, 2)
              [] c = "Grade"   -> StrV(<<GradeOf(ms)>>)
              [] OTHER         ->
                    ScoreValue(v, ms[CHOOSE i \in 1..n : SubjectNames[i] = c])]

\* validate_score of the marks of the form, computed once
ScoreOK == [r \in RawScores |-> validate_score(r)]

BadMarks(ms) ==
    {SubjectNames[i] : i \in {j \in 1..Len(ms) :
        ~(IF ms[j] \in RawScores THEN ScoreOK[ms[j]] ELSE validate_score(ms[j]))}}

\* the fields for which the submitted handler shows st.error: Application.py
\* and app.py collect an error for every failing field; final_app.py looks at
\* the marks only when the name is not blank
Errors(v, nm, ms) ==
    IF v = "final_app"
    THEN IF Strip(nm) = <<>> THEN {"Name"} ELSE BadMarks(ms)
    ELSE (IF validate_name(nm) THEN {} ELSE {"Name"}) \cup BadMarks(ms)

HasFile(v) == v \in {"app", "final_app"}

\* the columns written by the auto-save
SaveColumns(v, recs, n) ==
    IF v = "final_app" THEN CSV_COLUMNS(n) ELSE DfColumns(recs)

-----------------------------------------------------------------------------
(* Inputs *)

Variants == {"Application", "app", "final_app"}

\* names typed into the form: blank, only a space, and one with a space to strip
Names == {<<>>, <<" ">>, <<" ", "A", "l">>}

NoRecord == <<>>

-----------------------------------------------------------------------------
(* The pages.  Every interaction reruns the script: its top reloads the      *)
(* roster (pc = "top" to "body"), then the widgets are read and the handler  *)
(* of the widget that caused the rerun runs to the end of the script.        *)

DefaultSubjects == 3

Init ==
    /\ variant \in Variants
    /\ students = <<>>
    /\ file = NoFile
    /\ pc = "top"
    /\ num_subjects = (IF variant = "final_app" /\ MaxSubjects < DefaultSubjects
                       THEN MaxSubjects ELSE DefaultSubjects)
    /\ event = "none"
    /\ invalid = {}
    /\ errors = {}
    /\ student_record = NoRecord
    /\ outcome = "none"
    /\ removed = FALSE
    /\ score_in = <<>>
    /\ score_out = <<>>
    /\ avg_in = Rat(0, 1)
    /\ grade_out = ""

\* the roster after the top of the script
Load(v, f, recs) == IF HasFile(v) /\ f.exists THEN read_csv(f) ELSE recs

\* the top of the script: the roster is reloaded from the file when there is one
Rerun ==
    /\ pc = "top"
    /\ pc' = "body"
    /\ students' = Load(variant, file, students)
    /\ event' = "none"
    /\ invalid' = {}
    /\ errors' = {}
    /\ student_record' = NoRecord
    /\ outcome' = "none"
    /\ removed' = FALSE
    /\ UNCHANGED <<variant, file, num_subjects,
                   score_in, score_out, avg_in, grade_out>>

Handler(ev) ==
    /\ pc = "body"
    /\ pc' = "top"
    /\ event' = ev
    /\ UNCHANGED <<variant, score_in, score_out, avg_in, grade_out>>

\* pd.DataFrame(st.session_state.students)[CSV_COLUMNS].to_csv(CSV_FILE, index=False);
\* a write that fails raises before the file is touched
Save(v, f, recs, n, ok) ==
    IF HasFile(v) /\ ok THEN to_csv(recs, SaveColumns(v, recs, n)) ELSE f

Rejected(recs, f, errs) ==
    [students |-> recs, file |-> f, errors |-> errs, record |-> NoRecord,
     outcome |-> "invalid"]

Accepted(v, recs, f, n, nm, ms, ok, avg2) ==
    LET rec  == Record(v, nm, ms, avg2)
        recs2 == Append(recs, rec)
    IN  [students |-> recs2,
         file     |-> Save(v, f, recs2, n, ok),
         errors   |-> {},
         record   |-> rec,
         outcome  |-> IF ok THEN "added" ELSE "write_failed"]

\* a handler that appends and saves whatever the checks say: not the code's
SubmittedUnchecked(v, recs, f, n, nm, ms, ok, avg2) ==
    [Accepted(v, recs, f, n, nm, ms, ok, avg2) EXCEPT
        !.errors = Errors(v, nm, ms),
        !.outcome = IF Errors(v, nm, ms) = {} THEN @ ELSE "invalid"]

\* if submitted: the fields are checked; when none fails the record is built,
\* appended and auto-saved
Submitted(v, recs, f, n, nm, ms, ok, avg2) ==
    IF Errors(v, nm, ms) # {}
    THEN Rejected(recs, f, Errors(v, nm, ms))
    ELSE Accepted(v, recs, f, n, nm, ms, ok, avg2)

\* the fields of the submitted form that fail validate_name / validate_score
InvalidFields(nm, ms) ==
    (IF validate_name(nm) THEN {} ELSE {"Name"}) \cup BadMarks(ms)

\* the submitted handler on the form (nm, ms); ok is whether the auto-save
\* succeeds and avg2 the rounded average
Finish(r, bad) ==
    /\ Handler("submit")
    /\ invalid' = bad
    /\ students' = r.students
    /\ file' = r.file
    /\ errors' = r.errors
    /\ student_record' = r.record
    /\ outcome' = r.outcome
    /\ UNCHANGED <<removed, num_subjects>>

Submit(nm, ms, ok, avg2) ==
    Finish(Submitted(variant, students, file, num_subjects, nm, ms, ok, avg2),
           InvalidFields(nm, ms))

\* the form is submitted with a field that fails
SubmitInvalid ==
    /\ pc = "body"
    /\ \E nm \in Names, ms \in [1..num_subjects -> RawScores] :
          /\ InvalidFields(nm, ms) # {}
          /\ Submit(nm, ms, TRUE, 0)

\* the form is submitted and every field passes; the auto-save may fail
SubmitValid ==
    /\ pc = "body"
    /\ Len(students) < MaxStudents
    /\ \E nm \in Names, ms \in [1..num_subjects -> RawScores] :
          /\ InvalidFields(nm, ms) = {}
          /\ \E ok \in (IF HasFile(variant) THEN BOOLEAN ELSE {TRUE}) :
             \E avg2 \in Round2(Mean(Scores(ms))) :
                Submit(nm, ms, ok, avg2)

\* a clear that leaves the file in place: not the code's
RemoveNever(v, f) == f

\* if os.path.exists(CSV_FILE): os.remove(CSV_FILE)
Remove(v, f) == IF HasFile(v) /\ f.exists THEN NoFile ELSE f

\* st.session_state.students = []
Cleared(recs) == <<>>

\* the clear button: it is drawn, and so can be pressed, only under a roster
\* that is not empty
Clear ==
    /\ Handler("clear")
    /\ students # <<>>
    /\ students' = Cleared(students)
    /\ file' = Remove(variant, file)
    /\ removed' = (HasFile(variant) /\ file.exists)
    /\ errors' = {}
    /\ outcome' = "cleared"
    /\ invalid' = {}
    /\ UNCHANGED <<student_record, num_subjects>>

\* the "Number of subjects" slider of final_app.py is moved
MoveSlider ==
    /\ variant = "final_app"
    /\ Handler("slider")
    /\ num_subjects' \in (1..MaxSubjects) \ {num_subjects}
    /\ outcome' = "idle"
    /\ UNCHANGED <<students, file, student_record, removed, errors, invalid>>

\* any other widget: the page is only redrawn
Redraw ==
    /\ Handler("idle")
    /\ outcome' = "idle"
    /\ UNCHANGED <<students, file, student_record, removed, errors, invalid,
                   num_subjects>>

Next ==
    \/ Rerun
    \/ SubmitInvalid
    \/ SubmitValid
    \/ Clear
    \/ MoveSlider
    \/ Redraw

Spec == Init /\ [][Next]_vars

-----------------------------------------------------------------------------
(* validate_score on every text of up to MaxLen characters *)

ScoreAlphabet == {"0", "1", "5", ".", "-", " ", "a", "n", "i", "f"}

Texts == UNION {[1..k -> ScoreAlphabet] : k \in 0..MaxLen}

Idle ==
    /\ variant = "Application"
    /\ students = <<>>
    /\ file = NoFile
    /\ pc = "top"
    /\ num_subjects = DefaultSubjects
    /\ event = "none"
    /\ invalid = {}
    /\ errors = {}
    /\ student_record = NoRecord
    /\ outcome = "none"
    /\ removed = FALSE

InitScore ==
    /\ Idle
    /\ score_in \in Texts
    /\ score_out = <<>>
    /\ avg_in = Rat(0, 1)
    /\ grade_out = ""

ValidateScore ==
    /\ score_out = <<>>
    /\ score_out' = <<validate_score(score_in)>>
    /\ UNCHANGED <<appVars, score_in, avg_in, grade_out>>

SpecScore == InitScore /\ [][ValidateScore]_vars

-----------------------------------------------------------------------------
(* compute_grade on every average k / AvgDen from -1 to 101 *)

MaxScore == 100

InitGrade ==
    /\ Idle
    /\ score_in = <<>>
    /\ score_out = <<>>
    /\ avg_in \in {Rat(k, AvgDen) : k \in (0 - AvgDen)..((MaxScore + 1) * AvgDen)}
    /\ grade_out = ""

ComputeGrade ==
    /\ grade_out = ""
    /\ grade_out' = compute_grade(avg_in)
    /\ UNCHANGED <<appVars, score_in, score_out, avg_in>>

SpecGrade == InitGrade /\ [][ComputeGrade]_vars

-----------------------------------------------------------------------------
(* Properties *)

Rank(g) == CASE g = "A" -> 4 [] g = "B" -> 3 [] g = "C" -> 2 [] g = "D" -> 1 [] OTHER -> 0

\* C1: compute_grade returns exactly one of A, B, C, D, F by the half-open
\* bands (A iff a >= 80, B iff 70 <= a < 80, C iff 60 <= a < 70, D iff
\* 50 <= a < 60, F iff a < 50), a boundary value falling in the higher band,
\* and the grade of a lower average is never better.
C1_GradeBands ==
    grade_out # "" =>
        LET n == avg_in.num
            d == avg_in.den
        IN  /\ grade_out \in {"A", "B", "C", "D", "F"}
            /\ (grade_out = "A") <=> (n >= 80 * d)
            /\ (grade_out = "B") <=> (70 * d <= n /\ n < 80 * d)
            /\ (grade_out = "C") <=> (60 * d <= n /\ n < 70 * d)
            /\ (grade_out = "D") <=> (50 * d <= n /\ n < 60 * d)
            /\ (grade_out = "F") <=> (n < 50 * d)
            /\ Rank(compute_grade(Rat(n - 1, d))) <= Rank(grade_out)

\* the boundary 80 has been graded, and graded A
C1_Witness == grade_out = "A" /\ avg_in.num = 80 * avg_in.den

\* C2: the record a successful add puts in the roster has
\* Grade = compute_grade(its stored, rounded Average).
C2_GradeOfStoredAverage ==
    (pc = "top" /\ outcome = "added") =>
        LET a == student_record["Average"]
        IN  /\ students[Len(students)] = student_record
            /\ student_record["Grade"] = StrV(<<compute_grade(Rat(a.m, Pow10(a.e)))>>)

\* the number a score field stands for: the text typed (final_app.py before a
\* reload), or the number held
NumberOf(v) ==
    CASE v.t = "str" -> PyFloat(v.s)
      [] v.t = "nan" -> [NotParsed EXCEPT !.ok = TRUE, !.kind = "nan"]
      [] OTHER       -> Fin(v.neg, v.m, v.e)

ScoreFields(rec) == SelectSeq(SubjectNames, LAMBDA c : c \in DOMAIN rec)

ScoresOf(rec) == [i \in 1..Len(ScoreFields(rec)) |-> NumberOf(rec[ScoreFields(rec)[i]])]

Recomputable(rec) ==
    /\ ScoreFields(rec) # <<>>
    /\ \A i \in 1..Len(ScoreFields(rec)) : ScoresOf(rec)[i].kind = "fin"
    /\ \E q \in Round2(Mean(ScoresOf(rec))) : rec["Average"] = FloatV(FALSE, q, 2)

\* C3: in every reachable state the Average of each record of the roster is
\* the mean of the scores that record holds, rounded to 2 decimals.
C3_AverageRecomputable ==
    \A i \in 1..Len(students) : Recomputable(students[i])

C5_EveryFailingFieldReported ==
    (pc = "top" /\ event = "submit" /\ invalid # {}) => errors = invalid

FileReflects(recs, f) ==
    /\ f.exists
    /\ Len(f.rows) = Len(recs)
    /\ \A i \in 1..Len(recs) :
          /\ DOMAIN recs[i] = Range(f.cols)
          /\ \A c \in DOMAIN recs[i] : f.rows[i][c] = CellText(recs[i][c])

\* C6: after every successful add of an auto-saving page the file holds one
\* row per roster record, in order, with the fields and values of the record.
C6_FileReflectsRoster ==
    (pc = "top" /\ outcome = "added" /\ HasFile(variant)) => FileReflects(students, file)

\* C7: the clear button ends with an empty roster and no file, the roster is
\* still empty after the following rerun, and the removal is skipped, the
\* handler still completing, when no file is present.
C7_ClearEmptiesRosterAndFile ==
    /\ []((pc = "top" /\ outcome = "cleared") => (students = <<>> /\ ~file.exists))
    /\ [][(pc = "top" /\ outcome = "cleared") => (students' = <<>> /\ ~file'.exists)]_vars
    /\ [][(pc = "body" /\ event' = "clear")
             => (outcome' = "cleared" /\ (removed' <=> file.exists))]_vars

\* an auto-saving page was cleared while no file was present
C7_Witness ==
    /\ pc = "top"
    /\ outcome = "cleared"
    /\ HasFile(variant)
    /\ ~removed

\* C8: validate_score returns a boolean for every text: TRUE iff the text
\* parses as a finite number in [0, 100]; FALSE for text that is no number,
\* the empty text, negative numbers, numbers above 100, nan and inf; TRUE for
\* 0 and 100.
C8_ValidateScoreTotal ==
    score_out # <<>> =>
        LET p  == SignedNumber(Strip(score_in))
            v  == score_out[1]
            in == /\ p.ok
                  /\ p.kind = "fin"
                  /\ (p.neg => p.m = 0)
                  /\ p.m <= 100 * Pow10(p.e)
        IN  /\ v \in BOOLEAN
            /\ v <=> in
            /\ score_in = <<>> => ~v
            /\ ~p.ok => ~v
            /\ p.kind \in {"nan", "inf"} => ~v
            /\ (p.kind = "fin" /\ p.neg /\ p.m > 0) => ~v
            /\ (p.kind = "fin" /\ p.m > 100 * Pow10(p.e)) => ~v
            /\ score_in \in {<<"0">>, <<"1", "0", "0">>, <<"0", ".", "5">>} => v

\* the upper end of the range has been validated, and accepted
C8_Witness == score_out = <<TRUE>> /\ score_in = <<"1", "0", "0">>

\* C9: after an add, the rerun that reloads the roster from the rewritten
\* file and exports it reproduces every field of the record that was built,
\* with the text that record's value has.
C9_RoundTrip ==
    [][(pc = "top" /\ outcome = "added" /\ HasFile(variant)) =>
          /\ Len(students') = Len(students)
          /\ \A c \in DOMAIN student_record :
                /\ c \in Range(Export(students').cols)
                /\ Export(students').rows[Len(students')][c] = CellText(student_record[c])]_vars

SameNumber(x, y) ==
    /\ NumberOf(x).kind = "fin"
    /\ NumberOf(y).kind = "fin"
    /\ FloatLe(NumberOf(x), NumberOf(y))
    /\ FloatLe(NumberOf(y), NumberOf(x))

\* the same fields with the same values, a number counting as the same when
\* it is held in another type
SameRecord(a, b) ==
    /\ DOMAIN a = DOMAIN b
    /\ \A c \in DOMAIN a : a[c] = b[c] \/ SameNumber(a[c], b[c])

\* C10: a successful add appends the new record at the end of the previous
\* roster, and the rerun that reloads the roster from the file keeps every
\* record at its position with its fields and values.
C10_AppendKeepsEarlierRecords ==
    [][/\ (pc = "body" /\ outcome' = "added")
            => students' = Append(students, student_record')
       /\ (pc = "top" /\ outcome = "added")
            => /\ Len(students') = Len(students)
               /\ \A i \in 1..Len(students) : SameRecord(students'[i], students[i])]_vars

\* C11: when the rewrite of a valid add fails, the handler leaves the new
\* record at the end of the in-memory roster and the file as it was before
\* the add, and the record is still at the end of the roster after the rerun
\* of the next interaction of the session.
C11_WriteFailureKeepsRecord ==
    [][/\ (pc = "body" /\ outcome' = "write_failed")
            => /\ students' = Append(students, student_record')
               /\ file' = file
       /\ (pc = "top" /\ outcome = "write_failed")
            => /\ students' = students
               /\ file' = file]_vars

=============================================================================
